---- MODULE Spec2Model ----
(***************************************************************************)
(* Model of the file-management core of pterodactyl-ts: the request        *)
(* gateway (Request.ts: APIRequest, makeRequest), the File class           *)
(* (File.ts), the FileManager class (FileManager.ts), Client.login         *)
(* (Client.ts) and Server.getFileManager (Server.ts).                      *)
(*                                                                         *)
(* Strings the code slices, splits or joins (paths, names, mode strings)   *)
(* are sequences of one-character strings; messages are TLA+ strings.      *)
(* An asynchronous operation is a chain of steps: the synchronous prefix   *)
(* up to its first await (the Call action), the settlement of the request  *)
(* it awaits (Deliver) and the continuation after the await (Resume).      *)
(***************************************************************************)
EXTENDS Integers, Sequences, FiniteSets, TLC

VARIABLES
    verified,   \* Client.verified
    contents,   \* FileManager.contents of the server's FileManager, once built
    op,         \* the operation in progress ("idle" when none)
    self,       \* the File the operation was invoked on
    args,       \* the operation's arguments and locals kept across awaits
    pc,         \* "idle" | "await" | "resume" | "done"
    stage,      \* index of the await the operation is at (0 or 1)
    net,        \* the requests handed to Axios.request since the call began
    pending,    \* indexes into net of the requests not yet settled
    last,       \* upstream outcome of the request settled most recently
    api,        \* what the awaited APIRequest call produced
    result,     \* what the operation produced for its caller
    bg          \* the delete() promise decompress leaves un-awaited

vars == <<verified, contents, op, self, args, pc, stage, net, pending, last, api, result, bg>>

----------------------------------------------------------------------------
(* Bounds of the model *)

\* longest structured error list an upstream body carries
MaxErrors == 2
\* longest directory listing an upstream body carries
MaxListing == 2

----------------------------------------------------------------------------
(* Values *)

\* JavaScript's undefined, where a response or an outcome would stand
UNDEF == [kind |-> "undefined"]
\* undefined, where a string argument would stand
NOSTR == <<"undefined">>
\* an absent field of an error element
ABSENT == ""

SLASH == "/"

\* string.endsWith("/") and string.startsWith("/")
EndsWithSlash(s) == Len(s) > 0 /\ s[Len(s)] = SLASH
StartsWithSlash(s) == Len(s) > 0 /\ s[1] = SLASH
\* string.slice(0, -1) and string.slice(1)
DropLast(s) == SubSeq(s, 1, Len(s) - 1)
DropFirst(s) == SubSeq(s, 2, Len(s))
\* string.charAt(i), 0-based; "" beyond the end
CharAt(s, i) == IF i + 1 <= Len(s) THEN s[i + 1] ELSE ""
\* Substr taking its characters from the start of the string
SubstrFromStart(s, start, length) ==
    SubSeq(s, 1, IF length <= Len(s) THEN length ELSE Len(s))

\* string.substr(start, length)
Substr(s, start, length) ==
    SubSeq(s, start + 1, IF start + length <= Len(s) THEN start + length ELSE Len(s))

RECURSIVE SplitFrom(_, _, _)
SplitFrom(s, i, cur) ==
    IF i > Len(s) THEN <<cur>>
    ELSE IF s[i] = SLASH THEN <<cur>> \o SplitFrom(s, i + 1, <<>>)
    ELSE SplitFrom(s, i + 1, Append(cur, s[i]))
\* string.split("/")
Split(s) == SplitFrom(s, 1, <<>>)

RECURSIVE Join(_)
\* array.join("/")
Join(parts) ==
    IF Len(parts) = 0 THEN <<>>
    ELSE IF Len(parts) = 1 THEN parts[1]
    ELSE parts[1] \o <<SLASH>> \o Join(Tail(parts))

\* pathList.pop() and what is left of pathList
PopName(path) == Split(path)[Len(Split(path))]
PopRoot(path) == Join(DropLast(Split(path)))

----------------------------------------------------------------------------
(* File constructor *)

\* FileCtor composing location and root from the parent as it was passed
FileCtorNoTrim(data, parent) ==
    LET flag == CharAt(data.mode, 0)
        ownerPerms == Substr(data.mode, 1, 3)
        userPerms == Substr(data.mode, 4, 3)
    IN  [kind |-> "File",
         name |-> data.name,
         size |-> data.size,
         mode |-> data.mode,
         location |-> parent \o <<SLASH>> \o data.name,
         root |-> IF Len(parent) = 0 THEN <<SLASH>> ELSE parent,
         isDirectory |-> (flag = "d"),
         ownerFileAccess |-> [read |-> CharAt(ownerPerms, 0) = "r",
                              write |-> CharAt(ownerPerms, 1) = "w",
                              execute |-> CharAt(ownerPerms, 2) = "x"],
         userFileAccess |-> [read |-> CharAt(userPerms, 0) = "r",
                             write |-> CharAt(userPerms, 1) = "w",
                             execute |-> CharAt(userPerms, 2) = "x"]]

FileCtor(data, parent) ==
    LET p == IF EndsWithSlash(parent) THEN DropLast(parent) ELSE parent
        flag == CharAt(data.mode, 0)
        ownerPerms == Substr(data.mode, 1, 3)
        userPerms == Substr(data.mode, 4, 3)
    IN  [kind |-> "File",
         name |-> data.name,
         size |-> data.size,
         mode |-> data.mode,
         location |-> p \o <<SLASH>> \o data.name,
         root |-> IF Len(p) = 0 THEN <<SLASH>> ELSE p,
         isDirectory |-> (flag = "d"),
         ownerFileAccess |-> [read |-> CharAt(ownerPerms, 0) = "r",
                              write |-> CharAt(ownerPerms, 1) = "w",
                              execute |-> CharAt(ownerPerms, 2) = "x"],
         userFileAccess |-> [read |-> CharAt(userPerms, 0) = "r",
                             write |-> CharAt(userPerms, 1) = "w",
                             execute |-> CharAt(userPerms, 2) = "x"]]

----------------------------------------------------------------------------
(* Upstream: what the panel, or the network, answers to one request *)

\* listing entries (FileData.attributes) the panel may report
Entries ==
    { [name |-> <<"a">>, mode |-> <<"d","r","w","x","r","-","x">>, size |-> 0],
      [name |-> <<"a">>, mode |-> <<"-","r","w","-","r","-","-">>, size |-> 5],
      [name |-> <<"b">>, mode |-> <<"-","r","w","x","r","w","-">>, size |-> 9] }

SeqsUpTo(S, n) == UNION { [1..k -> S] : k \in 0..n }

\* a directory holds no two entries of one name (so the names of Entries
\* bound a listing's length as well as MaxListing does)
Listings ==
    { l \in SeqsUpTo(Entries, MaxListing) :
        \A i, j \in 1..Len(l) : i # j => l[i].name # l[j].name }

\* elements of a structured error list; "" is an absent field
ErrorElems ==
    { [code |-> "E1", status |-> "500", source |-> ABSENT, detail |-> "boom"],
      [code |-> "E2", status |-> ABSENT, source |-> "field", detail |-> "bang"],
      [code |-> "E3", status |-> "422", source |-> "field", detail |-> "both"],
      [code |-> "E4", status |-> ABSENT, source |-> ABSENT, detail |-> "lone"] }

ErrorLists == SeqsUpTo(ErrorElems, MaxErrors)

Statuses2xx == {200, 201, 204}
StatusesErr == {403, 500}

StatusText(s) ==
    CASE s = 200 -> "OK"
      [] s = 201 -> "Created"
      [] s = 204 -> "No Content"
      [] s = 403 -> "Forbidden"
      [] s = 500 -> "Internal Server Error"

NetCodes == {"ECONNREFUSED", "ENOTFOUND", "ETIMEDOUT"}

\* Axios settles a request with a response of any status (kind "response") or
\* with no response at all (kind "neterr"). hasErrors: response.data.errors
\* is there (an array, empty or not).
Response(s, hasErrs, errs, data) ==
    [kind |-> "response", status |-> s, statusText |-> StatusText(s),
     hasErrors |-> hasErrs, errors |-> errs, data |-> data, code |-> ""]
NetError(c) ==
    [kind |-> "neterr", status |-> 0, statusText |-> "",
     hasErrors |-> FALSE, errors |-> <<>>, data |-> <<>>, code |-> c]

\* The body the panel sends with status 200: a listing for a list request,
\* the new entry for compress, nothing the library reads otherwise.
Payloads(endpoint) ==
    CASE endpoint = "list" -> Listings
      [] endpoint = "compress" -> { <<e>> : e \in Entries }
      [] OTHER -> { <<>> }

Upstreams(endpoint) ==
    { Response(200, FALSE, <<>>, d) : d \in Payloads(endpoint) }
    \cup { Response(s, FALSE, <<>>, <<>>) : s \in Statuses2xx \ {200} }
    \cup { Response(s, TRUE, e, <<>>) : s \in StatusesErr, e \in ErrorLists }
    \cup { Response(s, FALSE, <<>>, <<>>) : s \in StatusesErr }
    \cup { NetError(c) : c \in NetCodes }

----------------------------------------------------------------------------
(* Request.ts *)

Return(v) == [tag |-> "return", value |-> v, cls |-> "", msg |-> ""]
Throw(c, m) == [tag |-> "throw", value |-> UNDEF, cls |-> c, msg |-> m]

\* Axios.request resolves when validateStatus accepts the status (the
\* default, no caller overrides it: 2xx) and rejects otherwise, with
\* error.response set when a response arrived
AxiosResolves(up) == up.kind = "response" /\ up.status >= 200 /\ up.status < 300
\* the message of the error Axios rejects with
AxiosMessage(up) ==
    IF up.kind = "response"
    THEN "Request failed with status code " \o ToString(up.status)
    ELSE up.code

\* makeRequest: a pair [response, error], or a throw
Pair(r, e) == [tag |-> "pair", response |-> r, error |-> e, cls |-> "", msg |-> ""]
PairThrow(c, m) == [tag |-> "throw", response |-> UNDEF, error |-> <<>>, cls |-> c, msg |-> m]

\* makeRequest reading the error list before it tests for 403
makeRequestErrorsFirst(up) ==
    IF AxiosResolves(up) THEN Pair(up, <<>>)
    ELSE IF up.kind = "response"
    THEN IF up.hasErrors
         THEN Pair(UNDEF, up.errors)
         ELSE IF up.status = 403
         THEN PairThrow("Error", "Invalid API key provided, request failed")
         ELSE PairThrow("AxiosError", AxiosMessage(up))
    ELSE IF up.code = "ECONNREFUSED"
         THEN PairThrow("Error", "Unable to connect to host, connection refused")
         ELSE IF up.code = "ENOTFOUND"
         THEN PairThrow("Error", "Unable to connect to host, host not found")
         ELSE PairThrow("AxiosError", AxiosMessage(up))

\* makeRequest with every response handed back as a response (as if
\* validateStatus accepted every status)
makeRequestNoReject(up) ==
    IF up.kind = "response" THEN Pair(up, <<>>)
    ELSE IF up.code = "ECONNREFUSED"
         THEN PairThrow("Error", "Unable to connect to host, connection refused")
         ELSE IF up.code = "ENOTFOUND"
         THEN PairThrow("Error", "Unable to connect to host, host not found")
         ELSE PairThrow("AxiosError", AxiosMessage(up))

makeRequest(up) ==
    IF AxiosResolves(up) THEN Pair(up, <<>>)
    ELSE IF up.kind = "response"
    THEN IF up.status = 403
         THEN PairThrow("Error", "Invalid API key provided, request failed")
         ELSE IF up.hasErrors
         THEN Pair(UNDEF, up.errors)
         ELSE PairThrow("AxiosError", AxiosMessage(up))
    ELSE IF up.code = "ECONNREFUSED"
         THEN PairThrow("Error", "Unable to connect to host, connection refused")
         ELSE IF up.code = "ENOTFOUND"
         THEN PairThrow("Error", "Unable to connect to host, host not found")
         ELSE PairThrow("AxiosError", AxiosMessage(up))

\* a field of an error element is truthy
Truthy(f) == f # ABSENT

RECURSIVE ScanErrorsSourceFirst(_)
\* ScanErrors with its two tests in the opposite order
ScanErrorsSourceFirst(errors) ==
    IF Len(errors) = 0 THEN Return(UNDEF)
    ELSE LET e == Head(errors) IN
         IF Truthy(e.code) /\ Truthy(e.source) /\ Truthy(e.detail)
         THEN Throw("PterodactylAPIError", e.detail)
         ELSE IF Truthy(e.code) /\ Truthy(e.status) /\ Truthy(e.detail)
         THEN Throw("PterodactylAPIError",
                    e.code \o " (" \o e.status \o "): " \o e.detail)
         ELSE ScanErrorsSourceFirst(Tail(errors))

\* ScanErrors looking at error[0] alone
ScanErrorsHeadOnly(errors) ==
    IF Len(errors) = 0 THEN Return(UNDEF)
    ELSE LET e == Head(errors) IN
         IF Truthy(e.code) /\ Truthy(e.status) /\ Truthy(e.detail)
         THEN Throw("PterodactylAPIError",
                    e.code \o " (" \o e.status \o "): " \o e.detail)
         ELSE IF Truthy(e.code) /\ Truthy(e.source) /\ Truthy(e.detail)
         THEN Throw("PterodactylAPIError", e.detail)
         ELSE Return(UNDEF)

RECURSIVE ScanErrors(_)
\* the for loop over the error list: the first element that matches one of
\* the two shapes throws; the loop falling through returns undefined
ScanErrors(errors) ==
    IF Len(errors) = 0 THEN Return(UNDEF)
    ELSE LET e == Head(errors) IN
         IF Truthy(e.code) /\ Truthy(e.status) /\ Truthy(e.detail)
         THEN Throw("PterodactylAPIError",
                    e.code \o " (" \o e.status \o "): " \o e.detail)
         ELSE IF Truthy(e.code) /\ Truthy(e.source) /\ Truthy(e.detail)
         THEN Throw("PterodactylAPIError", e.detail)
         ELSE ScanErrors(Tail(errors))

APIRequest(up, supressErrors) ==
    LET made == makeRequest(up) IN
    IF made.tag = "throw" THEN Throw(made.cls, made.msg)
    ELSE IF made.response.kind # "undefined"
    THEN IF made.response.status = 200 \/ made.response.status \in supressErrors
         THEN Return(made.response)
         ELSE Throw("PterodactylAPIError",
                    "An unexpected error occurred (" \o ToString(made.response.status)
                        \o "): " \o made.response.statusText)
    ELSE ScanErrors(made.error)

----------------------------------------------------------------------------
(* Client.ts *)

CLIENT_UNVERIFIED_ERROR == "Client is unverified, login to proceed"

----------------------------------------------------------------------------
(* The calls the model makes *)

\* parents the library builds Files under
Parents == { <<>>, <<SLASH, "d">> }
\* the Files an operation may be invoked on
Files == { FileCtor(e, p) : e \in Entries, p \in Parents }
\* names passed to rename and getChild
Names == { <<"a">>, <<"b">> }

\* no FileManager has been built yet
NoManager == [kind |-> "none", items |-> <<>>]
NoArgs == [kind |-> "none"]
NoBody == [kind |-> "none"]
NoOutcome == [tag |-> "none", value |-> UNDEF, cls |-> "", msg |-> ""]
NoBg == [state |-> "none", index |-> 0, outcome |-> NoOutcome]

\* values an operation hands back
True == [kind |-> "bool", b |-> TRUE]
False == [kind |-> "bool", b |-> FALSE]
Data(d) == [kind |-> "data", data |-> d]
List(items) == [kind |-> "list", items |-> items]

\* the options object of one APIRequest call, and the statuses passed with it
Request(o, st, endpoint, query, body, suppress) ==
    [op |-> o, stage |-> st, endpoint |-> endpoint, query |-> query,
     body |-> body, suppress |-> suppress]

\* dereferencing undefined: response.data, response.status
TypeErrorOfUndefined == Throw("TypeError", "Cannot read property of undefined")

----------------------------------------------------------------------------
(* Steps shared by the operations *)

Init ==
    /\ verified = FALSE
    /\ contents = NoManager
    /\ op = "idle"
    /\ self = UNDEF
    /\ args = NoArgs
    /\ pc = "idle"
    /\ stage = 0
    /\ net = <<>>
    /\ pending = {}
    /\ last = UNDEF
    /\ api = NoOutcome
    /\ result = NoOutcome
    /\ bg = NoBg

\* the caller invokes o on f with arguments a
Begin(o, f, a) ==
    /\ pc = "idle"
    /\ op' = o
    /\ self' = f
    /\ args' = a

\* the operation settles: it throws, or returns v
Settle(outcome) ==
    /\ pc' = "done"
    /\ result' = outcome
    /\ last' = last
    /\ api' = api

\* await APIRequest(req.options, req.suppress): makeRequest hands the options
\* to Axios.request within the same synchronous run
Await(req) ==
    /\ pc' = "await"
    /\ stage' = req.stage
    /\ net' = Append(net, req)
    /\ pending' = pending \cup {Len(net) + 1}
    /\ last' = UNDEF
    /\ api' = NoOutcome
    /\ result' = NoOutcome

\* the first await of an operation, or the throw that comes before it
FirstAwait(req) == Await(req) /\ UNCHANGED <<verified, contents, bg>>
ThrowBefore(c, m) ==
    /\ Settle(Throw(c, m))
    /\ UNCHANGED <<verified, contents, stage, net, pending, bg>>

\* the continuation of operation o after its await number st
Resuming(o, st) == pc = "resume" /\ op = o /\ stage = st
\* a continuation that ends the operation
Finish(outcome) ==
    /\ Settle(outcome)
    /\ UNCHANGED <<verified, contents, op, self, args, stage, net, pending, bg>>
\* a continuation that goes on to the next await
NextAwait(req) ==
    /\ Await(req)
    /\ UNCHANGED <<verified, contents, op, self, args, bg>>

\* the request the operation awaits
Awaited == net[Len(net)]

\* Axios settles the awaited request; APIRequest runs to its end
Deliver ==
    /\ pc = "await"
    /\ \E up \in Upstreams(Awaited.endpoint) :
        /\ last' = up
        /\ api' = APIRequest(up, Awaited.suppress)
    /\ pending' = pending \ {Len(net)}
    /\ pc' = "resume"
    /\ UNCHANGED <<verified, contents, op, self, args, stage, net, result, bg>>

\* the caller has the outcome; the next call starts afresh
Done ==
    /\ pc = "done"
    /\ pending = {}
    /\ pc' = "idle"
    /\ op' = "idle"
    /\ self' = UNDEF
    /\ args' = NoArgs
    /\ stage' = 0
    /\ net' = <<>>
    /\ last' = UNDEF
    /\ api' = NoOutcome
    /\ result' = NoOutcome
    /\ bg' = NoBg
    /\ UNCHANGED <<verified, contents, pending>>

----------------------------------------------------------------------------
(* File.ts *)

ListRequest(o, st, directory) ==
    Request(o, st, "list", directory, NoBody, {})

\* new File(file, server, parent) for each entry of response.data.data
Children(listing, parent) ==
    [i \in 1..Len(listing) |-> FileCtor(listing[i], parent)]

\* FindEntry taking the head of the listing without comparing names
FindEntryHead(listing, name) ==
    IF Len(listing) = 0 THEN UNDEF
    ELSE [kind |-> "entry", entry |-> Head(listing)]

RECURSIVE FindEntry(_, _)
\* for (const file of listing) if (file.attributes.name === name) return file
FindEntry(listing, name) ==
    IF Len(listing) = 0 THEN UNDEF
    ELSE IF Head(listing).name = name
    THEN [kind |-> "entry", entry |-> Head(listing)]
    ELSE FindEntry(Tail(listing), name)

getChildren ==
    \E f \in Files :
        /\ Begin("getChildren", f, NoArgs)
        /\ IF ~f.isDirectory
           THEN ThrowBefore("PterodactylAPIError",
                    "This file is not a directory, you cannot get it's children!")
           ELSE IF ~verified
           THEN ThrowBefore("PterodactylAPIError", CLIENT_UNVERIFIED_ERROR)
           ELSE FirstAwait(ListRequest("getChildren", 0, f.location))

getChildrenResume ==
    /\ Resuming("getChildren", 0)
    /\ IF api.tag = "throw" THEN Finish(api)
       ELSE IF api.value.kind = "undefined" THEN Finish(TypeErrorOfUndefined)
       ELSE Finish(Return(List(Children(api.value.data, self.location))))

\* getContents without its test for a directory
getContentsAnyKind ==
    \E f \in Files :
        /\ Begin("getContents", f, NoArgs)
        /\ IF ~verified
           THEN ThrowBefore("PterodactylAPIError", CLIENT_UNVERIFIED_ERROR)
           ELSE FirstAwait(Request("getContents", 0, "contents", f.location, NoBody, {}))

getContents ==
    \E f \in Files :
        /\ Begin("getContents", f, NoArgs)
        /\ IF f.isDirectory
           THEN ThrowBefore("PterodactylAPIError",
                    "A directory has no file contents, did you mean getChildren?")
           ELSE IF ~verified
           THEN ThrowBefore("PterodactylAPIError", CLIENT_UNVERIFIED_ERROR)
           ELSE FirstAwait(Request("getContents", 0, "contents", f.location, NoBody, {}))

getContentsResume ==
    /\ Resuming("getContents", 0)
    /\ IF api.tag = "throw" THEN Finish(api)
       ELSE IF api.value.kind = "undefined" THEN Finish(TypeErrorOfUndefined)
       ELSE Finish(Return(Data(api.value.data)))

\* getChild awaits getChildren(), whose prefix runs within getChild's
getChild ==
    \E f \in Files, name \in Names :
        /\ Begin("getChild", f, [name |-> name])
        /\ IF ~f.isDirectory
           THEN ThrowBefore("PterodactylAPIError",
                    "This file is not a directory, you cannot get it's children!")
           ELSE IF ~verified
           THEN ThrowBefore("PterodactylAPIError", CLIENT_UNVERIFIED_ERROR)
           ELSE FirstAwait(ListRequest("getChild", 0, f.location))

getChildResume ==
    /\ Resuming("getChild", 0)
    /\ IF api.tag = "throw" THEN Finish(api)
       ELSE IF api.value.kind = "undefined" THEN Finish(TypeErrorOfUndefined)
       ELSE LET found == FindEntry(api.value.data, args.name) IN
            IF found.kind = "undefined" THEN Finish(Return(UNDEF))
            ELSE Finish(Return(FileCtor(found.entry, self.location)))

download ==
    \E f \in Files :
        /\ Begin("download", f, NoArgs)
        /\ IF f.isDirectory
           THEN ThrowBefore("PterodactylAPIError",
                    "You cannot download a directory directly. Try compressing it first")
           ELSE IF ~verified
           THEN ThrowBefore("PterodactylAPIError", CLIENT_UNVERIFIED_ERROR)
           ELSE FirstAwait(Request("download", 0, "download", f.location, NoBody, {}))

downloadResume ==
    /\ Resuming("download", 0)
    /\ IF api.tag = "throw" THEN Finish(api)
       ELSE IF api.value.kind = "undefined" THEN Finish(TypeErrorOfUndefined)
       ELSE Finish(Return(Data(api.value.data)))

rename ==
    \E f \in Files, name \in Names :
        /\ Begin("rename", f, [name |-> name])
        /\ IF ~verified
           THEN ThrowBefore("PterodactylAPIError", CLIENT_UNVERIFIED_ERROR)
           ELSE FirstAwait(Request("rename", 0, "rename", NOSTR,
                    [root |-> f.root, from |-> f.name, to |-> name], {204}))

\* renameResume0 sending the rename again when it failed
renameResume0Retry ==
    /\ Resuming("rename", 0)
    /\ IF api.tag = "throw"
       THEN NextAwait(Request("rename", 1, "rename", NOSTR,
                [root |-> self.root, from |-> self.name, to |-> args.name], {204}))
       ELSE NextAwait(ListRequest("rename", 1, self.root))

\* response0 is never read: the listing is asked for whatever APIRequest returned
renameResume0 ==
    /\ Resuming("rename", 0)
    /\ IF api.tag = "throw" THEN Finish(api)
       ELSE NextAwait(ListRequest("rename", 1, self.root))

\* renameResume1 with the loop falling through, as in write
renameResume1Silent ==
    /\ Resuming("rename", 1)
    /\ IF api.tag = "throw" THEN Finish(api)
       ELSE IF api.value.kind = "undefined" THEN Finish(TypeErrorOfUndefined)
       ELSE LET found == FindEntry(api.value.data, args.name) IN
            IF found.kind = "undefined" THEN Finish(Return(UNDEF))
            ELSE Finish(Return(FileCtor(found.entry, self.root)))

\* renameResume1 renaming back when the listing lacks the new name
renameResume1Undo ==
    /\ Resuming("rename", 1)
    /\ IF api.tag = "throw" THEN Finish(api)
       ELSE IF api.value.kind = "undefined" THEN Finish(TypeErrorOfUndefined)
       ELSE LET found == FindEntry(api.value.data, args.name) IN
            IF found.kind = "undefined"
            THEN NextAwait(Request("rename", 2, "rename", NOSTR,
                     [root |-> self.root, from |-> args.name, to |-> self.name], {204}))
            ELSE Finish(Return(FileCtor(found.entry, self.root)))

renameResume1 ==
    /\ Resuming("rename", 1)
    /\ IF api.tag = "throw" THEN Finish(api)
       ELSE IF api.value.kind = "undefined" THEN Finish(TypeErrorOfUndefined)
       ELSE LET found == FindEntry(api.value.data, args.name) IN
            IF found.kind = "undefined"
            THEN Finish(Throw("PterodactylAPIError", "Unable to complete the operation"))
            ELSE Finish(Return(FileCtor(found.entry, self.root)))

sync ==
    \E f \in Files :
        /\ Begin("sync", f, NoArgs)
        /\ IF ~verified
           THEN ThrowBefore("PterodactylAPIError", CLIENT_UNVERIFIED_ERROR)
           ELSE FirstAwait(ListRequest("sync", 0, f.root))

\* syncResume taking the first entry of the listing, whatever its name
syncResumeFirst ==
    /\ Resuming("sync", 0)
    /\ IF api.tag = "throw" THEN Finish(api)
       ELSE IF api.value.kind = "undefined" THEN Finish(TypeErrorOfUndefined)
       ELSE IF Len(api.value.data) = 0
       THEN Finish(Throw("PterodactylAPIError",
                "Unable to find the file, has it been renamed?"))
       ELSE Finish(Return(FileCtor(api.value.data[1], self.root)))

syncResume ==
    /\ Resuming("sync", 0)
    /\ IF api.tag = "throw" THEN Finish(api)
       ELSE IF api.value.kind = "undefined" THEN Finish(TypeErrorOfUndefined)
       ELSE LET found == FindEntry(api.value.data, self.name) IN
            IF found.kind = "undefined"
            THEN Finish(Throw("PterodactylAPIError",
                     "Unable to find the file, has it been renamed?"))
            ELSE Finish(Return(FileCtor(found.entry, self.root)))

\* arguments the model passes to duplicate, write, writeChild, addDirectory
Locations == { <<SLASH>>, <<SLASH, "d">>, <<SLASH, "d", SLASH>> }
CopyLocations == Locations \ { <<SLASH>> }
NewNames == { <<>>, <<"b">> }
DirectoryNames == { <<"b">> }
WritePaths == { NOSTR, <<"b">>, <<SLASH, "b">>, <<"d", SLASH, "b">> }
ChildPaths == WritePaths \ { NOSTR }
CONTENTS == <<"x">>

duplicate ==
    \E f \in Files, toLocation \in CopyLocations, newName \in NewNames :
        LET to == IF EndsWithSlash(toLocation) THEN DropLast(toLocation) ELSE toLocation
            copyName == IF Len(newName) = 0 THEN f.name ELSE newName
        IN  /\ Begin("duplicate", f, [toLocation |-> toLocation, newName |-> newName])
            /\ IF ~verified
               THEN ThrowBefore("PterodactylAPIError", CLIENT_UNVERIFIED_ERROR)
               ELSE FirstAwait(Request("duplicate", 0, "copy", NOSTR,
                        [location |-> to \o <<SLASH>> \o copyName], {204}))

duplicateResume ==
    /\ Resuming("duplicate", 0)
    /\ IF api.tag = "throw" THEN Finish(api)
       ELSE Finish(Return(True))

WriteRequest(o, path) ==
    Request(o, 0, "write", path, [contents |-> CONTENTS], {204})

\* WritePath keeping the leading "/" of the path it is given
WritePathUnstripped(f, path) ==
    LET base == IF EndsWithSlash(f.root) THEN DropLast(f.root) ELSE f.root
    IN  IF path = NOSTR THEN base \o <<SLASH>> \o f.name
        ELSE base \o <<SLASH>> \o path

\* the path File.write resolves before it looks at client.verified
WritePath(f, path) ==
    LET base == IF EndsWithSlash(f.root) THEN DropLast(f.root) ELSE f.root
    IN  IF path = NOSTR THEN base \o <<SLASH>> \o f.name
        ELSE base \o <<SLASH>> \o (IF StartsWithSlash(path) THEN DropFirst(path) ELSE path)

write ==
    \E f \in Files, path \in WritePaths :
        /\ Begin("write", f, [path |-> WritePath(f, path), given |-> path])
        /\ IF f.isDirectory
           THEN ThrowBefore("PterodactylAPIError",
                    "A directory has no file contents, did you mean writeChild?")
           ELSE IF ~verified
           THEN ThrowBefore("PterodactylAPIError", CLIENT_UNVERIFIED_ERROR)
           ELSE FirstAwait(WriteRequest("write", WritePath(f, path)))

\* after the write: split the path, list its root, look the name up; the loop
\* falling through returns undefined
writeResume0 ==
    /\ Resuming("write", 0)
    /\ IF api.tag = "throw" THEN Finish(api)
       ELSE NextAwait(ListRequest("write", 1, PopRoot(args.path)))

writeResume1 ==
    /\ Resuming("write", 1)
    /\ IF api.tag = "throw" THEN Finish(api)
       ELSE IF api.value.kind = "undefined" THEN Finish(TypeErrorOfUndefined)
       ELSE LET found == FindEntry(api.value.data, PopName(args.path)) IN
            IF found.kind = "undefined" THEN Finish(Return(UNDEF))
            ELSE Finish(Return(FileCtor(found.entry, PopRoot(args.path))))

ChildPath(f, path) ==
    LET base == IF EndsWithSlash(f.location) THEN DropLast(f.location) ELSE f.location
    IN  base \o <<SLASH>> \o (IF StartsWithSlash(path) THEN DropFirst(path) ELSE path)

writeChild ==
    \E f \in Files, path \in ChildPaths :
        /\ Begin("writeChild", f, [path |-> ChildPath(f, path), given |-> path])
        /\ IF ~f.isDirectory
           THEN ThrowBefore("PterodactylAPIError",
                    "This is a file, not a directory. You cannot add or edit a child from it.")
           ELSE IF ~verified
           THEN ThrowBefore("PterodactylAPIError", CLIENT_UNVERIFIED_ERROR)
           ELSE FirstAwait(WriteRequest("writeChild", ChildPath(f, path)))

writeChildResume0 ==
    /\ Resuming("writeChild", 0)
    /\ IF api.tag = "throw" THEN Finish(api)
       ELSE NextAwait(ListRequest("writeChild", 1, PopRoot(args.path)))

writeChildResume1 ==
    /\ Resuming("writeChild", 1)
    /\ IF api.tag = "throw" THEN Finish(api)
       ELSE IF api.value.kind = "undefined" THEN Finish(TypeErrorOfUndefined)
       ELSE LET found == FindEntry(api.value.data, PopName(args.path)) IN
            IF found.kind = "undefined" THEN Finish(Return(UNDEF))
            ELSE Finish(Return(FileCtor(found.entry, PopRoot(args.path))))

\* DirectoryLocation resolving against this.root for a directory too
DirectoryLocationFromRoot(f, location) ==
    LET loc == IF EndsWithSlash(location) THEN DropLast(location) ELSE location
    IN  f.root \o loc

\* the location File.addDirectory resolves
DirectoryLocation(f, location) ==
    LET loc == IF EndsWithSlash(location) THEN DropLast(location) ELSE location
    IN  IF f.isDirectory THEN f.location \o loc ELSE f.root \o loc

addDirectory ==
    \E f \in Files, name \in DirectoryNames, location \in Locations :
        LET loc == DirectoryLocation(f, location) IN
        /\ Begin("addDirectory", f, [name |-> name, location |-> loc, given |-> location])
        /\ IF ~verified
           THEN ThrowBefore("PterodactylAPIError", CLIENT_UNVERIFIED_ERROR)
           ELSE FirstAwait(Request("addDirectory", 0, "create-folder",
                    loc \o <<SLASH>> \o name, [root |-> loc, name |-> name], {204}))

addDirectoryResume0 ==
    /\ Resuming("addDirectory", 0)
    /\ IF api.tag = "throw" THEN Finish(api)
       ELSE NextAwait(ListRequest("addDirectory", 1, args.location))

addDirectoryResume1 ==
    /\ Resuming("addDirectory", 1)
    /\ IF api.tag = "throw" THEN Finish(api)
       ELSE IF api.value.kind = "undefined" THEN Finish(TypeErrorOfUndefined)
       ELSE LET found == FindEntry(api.value.data, args.name) IN
            IF found.kind = "undefined" THEN Finish(Return(UNDEF))
            ELSE Finish(Return(FileCtor(found.entry, args.location)))

compress ==
    \E f \in Files :
        /\ Begin("compress", f, NoArgs)
        /\ IF ~verified
           THEN ThrowBefore("PterodactylAPIError", CLIENT_UNVERIFIED_ERROR)
           ELSE FirstAwait(Request("compress", 0, "compress", NOSTR,
                    [root |-> f.root, files |-> <<f.name>>], {}))

\* compressResume overwriting the fields of this with the new entry's and
\* returning this
compressResumeInPlace ==
    /\ Resuming("compress", 0)
    /\ IF api.tag = "throw" THEN Finish(api)
       ELSE IF api.value.kind = "undefined" THEN Finish(TypeErrorOfUndefined)
       ELSE /\ Settle(Return(FileCtor(api.value.data[1], self.root)))
            /\ self' = FileCtor(api.value.data[1], self.root)
            /\ UNCHANGED <<verified, contents, op, args, stage, net, pending, bg>>

\* new File(response.data, this.server, this.root)
compressResume ==
    /\ Resuming("compress", 0)
    /\ IF api.tag = "throw" THEN Finish(api)
       ELSE IF api.value.kind = "undefined" THEN Finish(TypeErrorOfUndefined)
       ELSE Finish(Return(FileCtor(api.value.data[1], self.root)))

DeleteRequest(o, st, f) ==
    Request(o, st, "delete", NOSTR, [root |-> f.root, files |-> <<f.name>>], {204})

decompress ==
    \E f \in Files, deleteSelf \in BOOLEAN :
        /\ Begin("decompress", f, [deleteSelf |-> deleteSelf])
        /\ IF ~verified
           THEN ThrowBefore("PterodactylAPIError", CLIENT_UNVERIFIED_ERROR)
           ELSE FirstAwait(Request("decompress", 0, "decompress", NOSTR,
                    [root |-> f.root, file |-> f.name], {204}))

\* decompressResume calling this.delete() only when deleteSelf is true
decompressResumeHonoured ==
    /\ Resuming("decompress", 0)
    /\ IF api.tag = "throw" THEN Finish(api)
       ELSE /\ Settle(Return(True))
            /\ IF ~args.deleteSelf
               THEN UNCHANGED <<net, pending, bg>>
               ELSE /\ net' = Append(net, DeleteRequest("decompress", 1, self))
                    /\ pending' = pending \cup {Len(net) + 1}
                    /\ bg' = [state |-> "pending", index |-> Len(net) + 1,
                              outcome |-> NoOutcome]
            /\ UNCHANGED <<verified, contents, op, self, args, stage>>

\* this.delete() is called and its promise dropped: delete runs up to its own
\* await (its request is handed to Axios) and decompress returns true at once
decompressResume ==
    /\ Resuming("decompress", 0)
    /\ IF api.tag = "throw" THEN Finish(api)
       ELSE /\ Settle(Return(True))
            /\ IF ~verified
               THEN /\ bg' = [state |-> "settled", index |-> 0,
                              outcome |-> Throw("PterodactylAPIError", CLIENT_UNVERIFIED_ERROR)]
                    /\ UNCHANGED <<net, pending>>
               ELSE /\ net' = Append(net, DeleteRequest("decompress", 1, self))
                    /\ pending' = pending \cup {Len(net) + 1}
                    /\ bg' = [state |-> "pending", index |-> Len(net) + 1,
                              outcome |-> NoOutcome]
            /\ UNCHANGED <<verified, contents, op, self, args, stage>>

\* Axios settles the request of the dropped delete(); nobody awaits its outcome
DeliverDropped ==
    /\ bg.state = "pending"
    /\ \E up \in Upstreams(net[bg.index].endpoint) :
        LET got == APIRequest(up, net[bg.index].suppress) IN
        bg' = [state |-> "settled", index |-> bg.index,
               outcome |-> IF got.tag = "throw" THEN got ELSE Return(True)]
    /\ pending' = pending \ {bg.index}
    /\ UNCHANGED <<verified, contents, op, self, args, pc, stage, net, last, api, result>>

\* delete without its test of client.verified
deleteUnchecked ==
    \E f \in Files :
        /\ Begin("delete", f, NoArgs)
        /\ FirstAwait(DeleteRequest("delete", 0, f))

delete ==
    \E f \in Files :
        /\ Begin("delete", f, NoArgs)
        /\ IF ~verified
           THEN ThrowBefore("PterodactylAPIError", CLIENT_UNVERIFIED_ERROR)
           ELSE FirstAwait(DeleteRequest("delete", 0, f))

deleteResume ==
    /\ Resuming("delete", 0)
    /\ IF api.tag = "throw" THEN Finish(api)
       ELSE Finish(Return(True))

----------------------------------------------------------------------------
(* Server.getFileManager and FileManager.ts *)

\* the request for /files/list, with no directory parameter
RootListRequest(o) == Request(o, 0, "list", NOSTR, NoBody, {})

\* new FileManager(list, server): new File(file, server) for each entry
Manager(listing) == [kind |-> "manager", items |-> Children(listing, <<>>)]

\* a continuation that ends the operation and assigns this.contents
FinishWith(outcome, files) ==
    /\ Settle(outcome)
    /\ contents' = files
    /\ UNCHANGED <<verified, op, self, args, stage, net, pending, bg>>

getFileManager ==
    /\ Begin("getFileManager", UNDEF, NoArgs)
    /\ IF ~verified
       THEN ThrowBefore("PterodactylAPIError", CLIENT_UNVERIFIED_ERROR)
       ELSE FirstAwait(RootListRequest("getFileManager"))

getFileManagerResume ==
    /\ Resuming("getFileManager", 0)
    /\ IF api.tag = "throw" THEN Finish(api)
       ELSE IF api.value.kind = "undefined" THEN Finish(TypeErrorOfUndefined)
       ELSE FinishWith(Return([kind |-> "FileManager"]), Manager(api.value.data))

\* the FileManager operations need a FileManager to be invoked on
BeginManager(o, a) == contents.kind = "manager" /\ Begin(o, UNDEF, a)

RECURSIVE FindFile(_, _)
\* for (const file of this.contents) if (file.name === name) return file
FindFile(files, name) ==
    IF Len(files) = 0 THEN UNDEF
    ELSE IF Head(files).name = name THEN Head(files)
    ELSE FindFile(Tail(files), name)

\* synchronous: no request, no await
FileManager_getChild ==
    \E name \in Names :
        /\ BeginManager("FileManager.getChild", [name |-> name])
        /\ Settle(Return(FindFile(contents.items, name)))
        /\ UNCHANGED <<verified, contents, stage, net, pending, bg>>

\* paths passed to the FileManager
ManagerPaths == { <<"b">>, <<SLASH, "b">>, <<SLASH, "d", SLASH, "b">> }
FolderPaths == { <<SLASH>>, <<SLASH, "d">> }

FileManager_getFileContents ==
    \E path \in ManagerPaths :
        /\ BeginManager("FileManager.getFileContents", [path |-> path])
        /\ IF ~verified
           THEN ThrowBefore("PterodactylAPIError", CLIENT_UNVERIFIED_ERROR)
           ELSE FirstAwait(Request("FileManager.getFileContents", 0, "contents",
                    path, NoBody, {}))

FileManager_getFileContentsResume ==
    /\ Resuming("FileManager.getFileContents", 0)
    /\ IF api.tag = "throw" THEN Finish(api)
       ELSE IF api.value.kind = "undefined" THEN Finish(TypeErrorOfUndefined)
       ELSE Finish(Return(Data(api.value.data)))

FileManager_getFolderContents ==
    \E path \in FolderPaths :
        /\ BeginManager("FileManager.getFolderContents", [path |-> path])
        /\ IF ~verified
           THEN ThrowBefore("PterodactylAPIError", CLIENT_UNVERIFIED_ERROR)
           ELSE FirstAwait(ListRequest("FileManager.getFolderContents", 0, path))

\* new File(file, this.server): no parent is passed
FileManager_getFolderContentsResume ==
    /\ Resuming("FileManager.getFolderContents", 0)
    /\ IF api.tag = "throw" THEN Finish(api)
       ELSE IF api.value.kind = "undefined" THEN Finish(TypeErrorOfUndefined)
       ELSE Finish(Return(List(Children(api.value.data, <<>>))))

\* the path FileManager.writeFile writes to
ManagerPath(path) == IF StartsWithSlash(path) THEN DropFirst(path) ELSE path

\* FileManager_writeFile handing the write and the listing to Axios together
FileManager_writeFileEager ==
    \E path \in ManagerPaths :
        /\ BeginManager("FileManager.writeFile",
                        [path |-> ManagerPath(path), given |-> path])
        /\ IF ~verified
           THEN ThrowBefore("PterodactylAPIError", CLIENT_UNVERIFIED_ERROR)
           ELSE /\ pc' = "await"
                /\ stage' = 1
                /\ net' = << WriteRequest("FileManager.writeFile", ManagerPath(path)),
                             ListRequest("FileManager.writeFile", 1,
                                         PopRoot(ManagerPath(path))) >>
                /\ pending' = {1, 2}
                /\ last' = UNDEF
                /\ api' = NoOutcome
                /\ result' = NoOutcome
                /\ UNCHANGED <<verified, contents, bg>>

FileManager_writeFile ==
    \E path \in ManagerPaths :
        /\ BeginManager("FileManager.writeFile",
                        [path |-> ManagerPath(path), given |-> path])
        /\ IF ~verified
           THEN ThrowBefore("PterodactylAPIError", CLIENT_UNVERIFIED_ERROR)
           ELSE FirstAwait(WriteRequest("FileManager.writeFile", ManagerPath(path)))

FileManager_writeFileResume0 ==
    /\ Resuming("FileManager.writeFile", 0)
    /\ IF api.tag = "throw" THEN Finish(api)
       ELSE NextAwait(ListRequest("FileManager.writeFile", 1, PopRoot(args.path)))

FileManager_writeFileResume1 ==
    /\ Resuming("FileManager.writeFile", 1)
    /\ IF api.tag = "throw" THEN Finish(api)
       ELSE IF api.value.kind = "undefined" THEN Finish(TypeErrorOfUndefined)
       ELSE LET found == FindEntry(api.value.data, PopName(args.path)) IN
            IF found.kind = "undefined" THEN Finish(Return(UNDEF))
            ELSE Finish(Return(FileCtor(found.entry, PopRoot(args.path))))

\* the location FileManager.addDirectory creates the folder in
ManagerLocation(location) ==
    IF Len(location) > 1 /\ EndsWithSlash(location) THEN DropLast(location) ELSE location

FileManager_addDirectory ==
    \E name \in DirectoryNames, location \in Locations :
        LET loc == ManagerLocation(location) IN
        /\ BeginManager("FileManager.addDirectory",
                        [name |-> name, location |-> loc, given |-> location])
        /\ IF ~verified
           THEN ThrowBefore("PterodactylAPIError", CLIENT_UNVERIFIED_ERROR)
           ELSE FirstAwait(Request("FileManager.addDirectory", 0, "create-folder",
                    loc \o <<SLASH>> \o name, [root |-> loc, name |-> name], {204}))

FileManager_addDirectoryResume0 ==
    /\ Resuming("FileManager.addDirectory", 0)
    /\ IF api.tag = "throw" THEN Finish(api)
       ELSE NextAwait(ListRequest("FileManager.addDirectory", 1, args.location))

FileManager_addDirectoryResume1 ==
    /\ Resuming("FileManager.addDirectory", 1)
    /\ IF api.tag = "throw" THEN Finish(api)
       ELSE IF api.value.kind = "undefined" THEN Finish(TypeErrorOfUndefined)
       ELSE LET found == FindEntry(api.value.data, args.name) IN
            IF found.kind = "undefined" THEN Finish(Return(UNDEF))
            ELSE Finish(Return(FileCtor(found.entry, args.location)))

FileManager_sync ==
    /\ BeginManager("FileManager.sync", NoArgs)
    /\ IF ~verified
       THEN ThrowBefore("PterodactylAPIError", CLIENT_UNVERIFIED_ERROR)
       ELSE FirstAwait(RootListRequest("FileManager.sync"))

\* FileManager_syncResume pushing onto the old contents, without the reset
FileManager_syncResumeMerge ==
    /\ Resuming("FileManager.sync", 0)
    /\ IF api.tag = "throw" THEN Finish(api)
       ELSE IF api.value.kind = "undefined"
       THEN Finish(TypeErrorOfUndefined)
       ELSE FinishWith(Return([kind |-> "FileManager"]),
                       [kind |-> "manager",
                        items |-> contents.items \o Children(api.value.data, <<>>)])

\* this.contents = [] comes first, then response.data.data is read and the
\* pushes run, with no await between them
FileManager_syncResume ==
    /\ Resuming("FileManager.sync", 0)
    /\ IF api.tag = "throw" THEN Finish(api)
       ELSE IF api.value.kind = "undefined"
       THEN FinishWith(TypeErrorOfUndefined, Manager(<<>>))
       ELSE FinishWith(Return([kind |-> "FileManager"]), Manager(api.value.data))

----------------------------------------------------------------------------
(* Client.login *)

login ==
    /\ Begin("login", UNDEF, NoArgs)
    /\ IF verified
       THEN /\ Settle(Return(True))
            /\ UNCHANGED <<verified, contents, stage, net, pending, bg>>
       ELSE FirstAwait(Request("login", 0, "account", NOSTR, NoBody, {}))

\* loginResume marking the client verified whatever the request came to
loginResumeLenient ==
    /\ Resuming("login", 0)
    /\ verified' = TRUE
    /\ Settle(Return(True))
    /\ UNCHANGED <<contents, op, self, args, stage, net, pending, bg>>

loginResume ==
    /\ Resuming("login", 0)
    /\ IF api.tag = "throw" THEN Finish(api)
       ELSE IF api.value.kind = "undefined" THEN Finish(TypeErrorOfUndefined)
       ELSE IF api.value.status = 200
       THEN /\ verified' = TRUE
            /\ Settle(Return(True))
            /\ UNCHANGED <<contents, op, self, args, stage, net, pending, bg>>
       ELSE Finish(Return(False))

----------------------------------------------------------------------------

Next ==
    \/ login \/ loginResume
    \/ getChildren \/ getChildrenResume
    \/ getContents \/ getContentsResume
    \/ getChild \/ getChildResume
    \/ download \/ downloadResume
    \/ rename \/ renameResume0 \/ renameResume1
    \/ sync \/ syncResume
    \/ duplicate \/ duplicateResume
    \/ write \/ writeResume0 \/ writeResume1
    \/ writeChild \/ writeChildResume0 \/ writeChildResume1
    \/ addDirectory \/ addDirectoryResume0 \/ addDirectoryResume1
    \/ compress \/ compressResume
    \/ decompress \/ decompressResume \/ DeliverDropped
    \/ delete \/ deleteResume
    \/ getFileManager \/ getFileManagerResume
    \/ FileManager_getChild
    \/ FileManager_getFileContents \/ FileManager_getFileContentsResume
    \/ FileManager_getFolderContents \/ FileManager_getFolderContentsResume
    \/ FileManager_writeFile \/ FileManager_writeFileResume0 \/ FileManager_writeFileResume1
    \/ FileManager_addDirectory \/ FileManager_addDirectoryResume0
    \/ FileManager_addDirectoryResume1
    \/ FileManager_sync \/ FileManager_syncResume
    \/ Deliver
    \/ Done

Spec == Init /\ [][Next]_vars

----------------------------------------------------------------------------
(* Properties of the gateway.  In a state with pc = "resume" the awaited    *)
(* APIRequest call has just ended: last is what Axios was answered, api is   *)
(* what APIRequest produced, Awaited.suppress the statuses passed to it.     *)

Ended == pc = "resume"
Completed == Ended /\ last.kind = "response"
\* the answer was an error response other than 403 carrying an error list
ErrorListed ==
    Completed /\ last.status \in StatusesErr /\ last.status # 403 /\ last.hasErrors

HasStatusShape(e) == e.code # "" /\ e.status # "" /\ e.detail # ""
HasSourceShape(e) == e.code # "" /\ e.source # "" /\ e.detail # ""
StatusMessage(e) == e.code \o " (" \o e.status \o "): " \o e.detail
DomainError(m) == api.tag = "throw" /\ api.cls = "PterodactylAPIError" /\ api.msg = m

\* C1: APIRequest succeeds (ends without throwing) exactly when the completed
\* response's status is 200 or one of the suppressed statuses, and then it
\* returns the response it received.
C1_SuccessIffOkOrSuppressed ==
    Completed =>
        /\ (api.tag = "return") <=> (last.status = 200 \/ last.status \in Awaited.suppress)
        /\ (api.tag = "return") => (api.value = last)

\* C2: every APIRequest call ends by returning a response object or by
\* throwing; it never returns without a response.
C2_ResponseOrThrow ==
    Ended => \/ api.tag = "throw"
             \/ api.tag = "return" /\ api.value.kind = "response"

\* C3: a non-403 error response whose error list starts with an element
\* having code, status and detail fails with "<code> (<status>): <detail>"
\* (E1, 500, boom gives "E1 (500): boom"); one whose first element has code,
\* source and detail but no status fails with <detail> alone.
C3_FirstElementMessage ==
    (ErrorListed /\ Len(last.errors) > 0) =>
        LET e == last.errors[1] IN
        /\ HasStatusShape(e) => DomainError(StatusMessage(e))
        /\ (HasSourceShape(e) /\ e.status = "") => DomainError(e.detail)
        /\ (e.code = "E1" /\ e.status = "500" /\ e.detail = "boom")
               => DomainError("E1 (500): boom")

C3_Witness ==
    /\ ErrorListed
    /\ last.status = 500
    /\ Len(last.errors) = 2
    /\ last.errors[1].code = "E1"
    /\ last.errors[2].code = "E2"
    /\ DomainError("E1 (500): boom")

\* C4 as stated: the failure is determined by the first element of the error
\* list alone; later elements are never used to build the message.
C4_FirstElementAlone ==
    (ErrorListed /\ Len(last.errors) > 0 /\ api.tag = "throw") =>
        LET e == last.errors[1] IN
        api.msg \in { StatusMessage(e), e.detail }

\* C4 as amended: the failure is determined by the first element of the list
\* that has one of the two recognised field combinations; the elements before
\* it are skipped and the elements after it are never used.
C4_FirstRecognisedElement ==
    ErrorListed =>
        LET errs == last.errors
            hits == { i \in 1..Len(errs) : HasStatusShape(errs[i]) \/ HasSourceShape(errs[i]) }
        IN  /\ (hits = {}) <=> (api.tag = "return")
            /\ hits # {} =>
                   LET i == CHOOSE k \in hits : \A j \in hits : k <= j IN
                   IF HasStatusShape(errs[i])
                   THEN DomainError(StatusMessage(errs[i]))
                   ELSE DomainError(errs[i].detail)

C4_Witness ==
    /\ ErrorListed
    /\ Len(last.errors) = 2
    /\ ~HasStatusShape(last.errors[1]) /\ ~HasSourceShape(last.errors[1])
    /\ HasStatusShape(last.errors[2])
    /\ DomainError(StatusMessage(last.errors[2]))

\* a completed response that is neither a success nor a 403 and has no
\* structured error list
Unrecognised ==
    /\ Completed
    /\ ~(last.status = 200 \/ last.status \in Awaited.suppress)
    /\ last.status # 403
    /\ ~last.hasErrors
UnexpectedMessage ==
    "An unexpected error occurred (" \o ToString(last.status) \o "): " \o last.statusText

\* C5 as stated: every such response, 2xx as well as 4xx and 5xx, fails with
\* "An unexpected error occurred (<status>): <statusText>".
C5_UnexpectedForEveryStatus ==
    Unrecognised => DomainError(UnexpectedMessage)

\* C5 as amended: every such response with a 2xx status fails with "An
\* unexpected error occurred (<status>): <statusText>"; with any other status
\* it fails with the error Axios rejected the request with.
C5_UnexpectedFor2xx ==
    Unrecognised =>
        IF last.status \in Statuses2xx
        THEN DomainError(UnexpectedMessage)
        ELSE /\ api.tag = "throw"
             /\ api.cls = "AxiosError"
             /\ api.msg = "Request failed with status code " \o ToString(last.status)

C5_Witness ==
    /\ Unrecognised
    /\ last.status = 204
    /\ Awaited.suppress = {}
    /\ DomainError("An unexpected error occurred (204): No Content")

\* C6: a 403 fails with the invalid-key message, a refused connection and an
\* unresolved host with their fixed messages, whatever the body holds: a 403
\* with a structured error list never yields a domain-error message.
C6_TransportAndAuthErrors ==
    Ended =>
        /\ (last.kind = "response" /\ last.status = 403) =>
               /\ api.tag = "throw" /\ api.cls = "Error"
               /\ api.msg = "Invalid API key provided, request failed"
        /\ (last.kind = "neterr" /\ last.code = "ECONNREFUSED") =>
               /\ api.tag = "throw" /\ api.cls = "Error"
               /\ api.msg = "Unable to connect to host, connection refused"
        /\ (last.kind = "neterr" /\ last.code = "ENOTFOUND") =>
               /\ api.tag = "throw" /\ api.cls = "Error"
               /\ api.msg = "Unable to connect to host, host not found"

C6_Witness ==
    /\ Completed
    /\ last.status = 403
    /\ last.hasErrors
    /\ Len(last.errors) > 0
    /\ HasStatusShape(last.errors[1])
    /\ api.msg = "Invalid API key provided, request failed"

----------------------------------------------------------------------------
(* Properties of the operations *)

\* what a request asks for: its endpoint, query string and body
Content(r) == <<r.endpoint, r.query, r.body>>

FileOps ==
    { "getChildren", "getContents", "getChild", "download", "rename", "sync",
      "duplicate", "write", "writeChild", "addDirectory", "compress",
      "decompress", "delete" }

\* a directory-only operation on a file, or a file-only operation on a directory
KindRejected ==
    \/ op \in {"getChildren", "getChild", "writeChild"} /\ ~self.isDirectory
    \/ op \in {"getContents", "download", "write"} /\ self.isDirectory

KindMessages ==
    { "This file is not a directory, you cannot get it's children!",
      "A directory has no file contents, did you mean getChildren?",
      "You cannot download a directory directly. Try compressing it first",
      "A directory has no file contents, did you mean writeChild?",
      "This is a file, not a directory. You cannot add or edit a child from it." }

\* C8 as stated: every File operation invoked while client.verified is false
\* fails with CLIENT_UNVERIFIED_ERROR and issues no request, whatever the
\* node's kind.
C8_UnverifiedAlways ==
    (op \in FileOps /\ ~verified) =>
        /\ pc = "done"
        /\ net = <<>>
        /\ result = Throw("PterodactylAPIError", CLIENT_UNVERIFIED_ERROR)

\* C8 as amended: every File operation invoked while client.verified is false
\* fails and issues no request; it fails with CLIENT_UNVERIFIED_ERROR unless
\* it is a directory-only operation on a file or a file-only operation on a
\* directory, which fails with its wrong-kind error instead.
C8_UnverifiedUnlessWrongKind ==
    (op \in FileOps /\ ~verified) =>
        /\ pc = "done"
        /\ net = <<>>
        /\ result.tag = "throw"
        /\ result.cls = "PterodactylAPIError"
        /\ IF KindRejected
           THEN result.msg \in KindMessages
           ELSE result.msg = CLIENT_UNVERIFIED_ERROR

C8_Witness ==
    /\ op = "delete"
    /\ ~verified
    /\ pc = "done"
    /\ net = <<>>
    /\ result.msg = CLIENT_UNVERIFIED_ERROR

\* C9: getChildren, getChild and writeChild on a non-directory, and
\* getContents, download and write on a directory, fail with a
\* PterodactylAPIError and issue no request.
C9_WrongKindFailsLocally ==
    (op \in FileOps /\ KindRejected) =>
        /\ pc = "done"
        /\ net = <<>>
        /\ result.tag = "throw"
        /\ result.cls = "PterodactylAPIError"

C9_Witness ==
    /\ op = "getContents"
    /\ verified
    /\ self.isDirectory
    /\ pc = "done"
    /\ net = <<>>
    /\ result.cls = "PterodactylAPIError"

\* the entries of the listing just received that are named n
Named(n) == { i \in 1..Len(last.data) : last.data[i].name = n }
\* the awaited listing request succeeded
Listed == last.kind = "response" /\ api.tag = "return" /\ api.value.kind = "response"

\* C10: rename(newName) issues the rename request for (root, name -> newName),
\* then lists the node's root, and returns a File built from the listing entry
\* named newName; when the listing holds no such entry it fails with "Unable
\* to complete the operation" and never returns an absent result.
C10_RenameRelists ==
    (op = "rename") =>
        /\ Len(net) >= 1 =>
               /\ net[1].endpoint = "rename"
               /\ net[1].body = [root |-> self.root, from |-> self.name, to |-> args.name]
        /\ Len(net) >= 2 =>
               /\ net[2].endpoint = "list"
               /\ net[2].query = self.root
        /\ Len(net) <= 2
        /\ (pc = "done" /\ result.tag = "return") =>
               /\ Len(net) = 2
               /\ result.value.kind = "File"
               /\ result.value.name = args.name
               /\ \E i \in Named(args.name) :
                      result.value = FileCtor(last.data[i], self.root)
        /\ (pc = "done" /\ stage = 1 /\ Listed /\ Named(args.name) = {}) =>
               result = Throw("PterodactylAPIError", "Unable to complete the operation")

C10_Witness ==
    /\ op = "rename"
    /\ pc = "done"
    /\ self.name = <<"a">>
    /\ args.name = <<"b">>
    /\ Listed
    /\ Len(last.data) = 1
    /\ last.data[1].name = <<"a">>
    /\ result = Throw("PterodactylAPIError", "Unable to complete the operation")

----------------------------------------------------------------------------
(* Properties of the mutate-then-relist operations.  At pc = "done" with    *)
(* stage = 1 the operation has ended after its second request, the          *)
(* re-listing: last holds the listing answered and result what the caller   *)
(* gets.                                                                    *)

RelistOps ==
    { "write", "writeChild", "addDirectory",
      "FileManager.writeFile", "FileManager.addDirectory" }
\* the name the operation looks up in the re-listing
ExpectedName ==
    IF op \in { "rename", "addDirectory", "FileManager.addDirectory" }
    THEN args.name
    ELSE PopName(args.path)

\* C11: write, writeChild, addDirectory, FileManager.writeFile and
\* FileManager.addDirectory fail with a consistency fault when the re-listing
\* holds no entry of the expected name; they never complete normally with an
\* absent result.
C11_MissingEntryFails ==
    (op \in RelistOps /\ pc = "done" /\ stage = 1 /\ Listed /\ Named(ExpectedName) = {}) =>
        result.tag = "throw"

\* C12: File.sync() issues exactly one listing request, for the node's root,
\* and returns a File built from the listing entry whose name is the node's
\* own name, parented at the same root; it fails with an error when the
\* listing holds no entry of that name.
C12_SyncRelists ==
    (op = "sync" /\ verified) =>
        /\ net = << ListRequest("sync", 0, self.root) >>
        /\ (pc = "done" /\ result.tag = "return") =>
               /\ Listed
               /\ result.value.name = self.name
               /\ result.value.root = self.root
               /\ \E i \in Named(self.name) :
                      result.value = FileCtor(last.data[i], self.root)
        /\ (pc = "done" /\ Listed /\ Named(self.name) = {}) =>
               result = Throw("PterodactylAPIError",
                              "Unable to find the file, has it been renamed?")

C12_Witness ==
    /\ op = "sync"
    /\ pc = "done"
    /\ self.name = <<"b">>
    /\ self.root = <<SLASH, "d">>
    /\ Listed
    /\ Len(last.data) = 2
    /\ last.data[2].name = <<"b">>
    /\ result.tag = "return"
    /\ result.value.location = <<SLASH, "d", SLASH, "b">>

\* the mutating request of a mutate-then-relist operation
MutatingEndpoint ==
    CASE op = "rename" -> "rename"
      [] op \in { "write", "writeChild", "FileManager.writeFile" } -> "write"
      [] op \in { "addDirectory", "FileManager.addDirectory" } -> "create-folder"

\* C13: within one call of rename, write, writeChild, addDirectory,
\* FileManager.writeFile or FileManager.addDirectory the first request issued
\* is the mutating one and the second the re-listing; the re-listing is issued
\* only when the mutating request is no longer outstanding, so the two are
\* never outstanding together.
C13_MutateBeforeRelist ==
    (op \in RelistOps \cup {"rename"}) =>
        /\ Len(net) <= 2
        /\ Cardinality(pending) <= 1
        /\ Len(net) >= 1 => net[1].endpoint = MutatingEndpoint
        /\ Len(net) = 2 =>
               /\ net[2].endpoint = "list"
               /\ 1 \notin pending

C13_Witness ==
    /\ op = "FileManager.writeFile"
    /\ pc = "await"
    /\ Len(net) = 2
    /\ net[1].endpoint = "write"
    /\ net[2].endpoint = "list"
    /\ pending = {2}

----------------------------------------------------------------------------
(* Properties of decompress *)

AnsweredFailure ==
    \/ last.kind = "neterr"
    \/ last.kind = "response" /\ last.status \notin Statuses2xx

\* C15: every fault reaches the immediate caller: an operation one of whose
\* requests failed fails itself; in particular decompress fails, and does not
\* return true, when the delete request it issued fails.
C15_EveryFaultSurfaces ==
    /\ (op = "decompress" /\ bg.state = "settled" /\ bg.outcome.tag = "throw") =>
           result.tag = "throw"
    /\ (pc = "done" /\ AnsweredFailure) => result.tag = "throw"

----------------------------------------------------------------------------
(* Properties of the Files the operations build *)

\* normalize: drop one trailing "/"
Normalize(r) == IF EndsWithSlash(r) THEN DropLast(r) ELSE r

\* the parent string the operation passes to new File for what it returns
ParentPassed ==
    CASE op \in { "getChildren", "getChild" } -> self.location
      [] op \in { "rename", "sync", "compress" } -> self.root
      [] op \in { "write", "writeChild", "FileManager.writeFile" } -> PopRoot(args.path)
      [] op \in { "addDirectory", "FileManager.addDirectory" } -> args.location
      [] OTHER -> <<>>

\* f is what the constructor makes of parent: location is normalize(root),
\* "/" and name; root is "/" exactly when the trimmed parent is empty, and
\* the trimmed parent otherwise
WellFormed(f, parent) ==
    /\ f.location = Normalize(f.root) \o <<SLASH>> \o f.name
    /\ (f.root = <<SLASH>>) <=> (Len(Normalize(parent)) = 0)
    /\ Len(Normalize(parent)) > 0 => f.root = Normalize(parent)

\* the Files an operation has handed back
Returned ==
    IF result.tag # "return" THEN {}
    ELSE IF result.value.kind = "File" THEN { result.value }
    ELSE IF result.value.kind = "list"
    THEN { result.value.items[i] : i \in DOMAIN result.value.items }
    ELSE {}

C17_LocationAbsolute ==
    /\ \A f \in Returned : StartsWithSlash(f.location)
    /\ contents.kind = "manager" =>
           \A i \in DOMAIN contents.items : StartsWithSlash(contents.items[i].location)

----------------------------------------------------------------------------
(* Properties of the paths sent *)

\* path holds two separators in a row
DoubleSeparator(path) ==
    \E i \in 1..(Len(path) - 1) : path[i] = SLASH /\ path[i + 1] = SLASH

\* C18: no path that write, writeChild, addDirectory, duplicate,
\* FileManager.writeFile or FileManager.addDirectory sends (the file= and
\* directory= parameters, the root and location fields of the body) holds
\* "//", for nodes at the server root and nested ones, for default and
\* caller-supplied locations.
C18_NoDoubleSeparator ==
    \A i \in 1..Len(net) :
        (net[i].op \in RelistOps \cup {"duplicate"}) =>
            /\ ~DoubleSeparator(net[i].query)
            /\ net[i].endpoint = "create-folder" => ~DoubleSeparator(net[i].body.root)
            /\ net[i].endpoint = "copy" => ~DoubleSeparator(net[i].body.location)

----------------------------------------------------------------------------
(* Frame of the File operations *)

\* C19: a File is an immutable snapshot: no step of a File operation, whether
\* it ends in a return or in a throw, changes a field of the File it was
\* invoked on or of a File held in the FileManager's contents; a File handed
\* back is built anew from what the panel answered.
C19_FileImmutable ==
    [][ (op \in FileOps /\ op' = op) => (self' = self /\ contents' = contents) ]_vars

C19_Witness ==
    /\ op = "compress"
    /\ pc = "done"
    /\ result.tag = "return"
    /\ result.value.kind = "File"
    /\ result.value.name # self.name
    /\ self \in Files
    /\ contents.kind = "manager"
    /\ Len(contents.items) > 0

----------------------------------------------------------------------------
(* Properties of FileManager.sync *)

\* C20: after a successful FileManager.sync contents is exactly the Files
\* built from the root listing just fetched, in listing order, none of the
\* previous contents kept; and contents goes from its old value to the new
\* one in one step of sync, so that no state between the two is ever seen
\* (a sync that fails on an absent response leaves contents empty).
C20_SyncReplaces ==
    /\ []( (op = "FileManager.sync" /\ pc = "done" /\ result.tag = "return") =>
               /\ Listed
               /\ net = << RootListRequest("FileManager.sync") >>
               /\ contents = Manager(last.data) )
    /\ [][ (op = "FileManager.sync" /\ op' = op) =>
               \/ contents' = contents
               \/ result'.tag = "return" /\ contents' = Manager(last'.data)
               \/ result'.tag = "throw" /\ contents' = Manager(<<>>) ]_vars

C20_Witness ==
    /\ op = "FileManager.sync"
    /\ pc = "done"
    /\ result.tag = "return"
    /\ Len(last.data) = 2
    /\ Len(contents.items) = 2
    /\ contents.items[1] = FileCtor(last.data[1], <<>>)
    /\ contents.items[2] = FileCtor(last.data[2], <<>>)

----------------------------------------------------------------------------
(* Round trips and decoding *)

\* the listing just received still holds the entry self was built from
Unchanged ==
    \E i \in Named(self.name) : FileCtor(last.data[i], self.root) = self

\* C21: read-only resync is idempotent: when the listing of the root still
\* holds the entry the File was built from, sync() returns a File with the
\* same name, size, isDirectory, access triples, root and location, and a
\* sync() of that File over the same listing gives the same fields again.
C21_ResyncIdempotent ==
    (op = "sync" /\ pc = "done" /\ Listed /\ Unchanged) =>
        /\ result.tag = "return"
        /\ result.value.name = self.name
        /\ result.value.size = self.size
        /\ result.value.isDirectory = self.isDirectory
        /\ result.value.ownerFileAccess = self.ownerFileAccess
        /\ result.value.userFileAccess = self.userFileAccess
        /\ result.value.root = self.root
        /\ result.value.location = self.location
        /\ LET again == FindEntry(last.data, result.value.name) IN
           /\ again.kind = "entry"
           /\ FileCtor(again.entry, result.value.root) = result.value

C21_Witness ==
    /\ op = "sync"
    /\ pc = "done"
    /\ Listed
    /\ Unchanged
    /\ Len(last.data) = 2
    /\ last.data[2].name = self.name
    /\ self.root = <<SLASH>>
    /\ result.tag = "return"
    /\ result.value = self

\* the mode strings: every string of ModeLength characters over ModeChars
ModeLength == 7
ModeChars == { "d", "-", "r", "w", "x" }
Modes == [1..ModeLength -> ModeChars]

\* a listing entry with mode m is about to be handed to new File
ModeInit ==
    /\ verified = FALSE
    /\ contents = NoManager
    /\ op = "idle"
    /\ self = UNDEF
    /\ args \in { [kind |-> "mode", mode |-> m] : m \in Modes }
    /\ pc = "idle"
    /\ stage = 0
    /\ net = <<>>
    /\ pending = {}
    /\ last = UNDEF
    /\ api = NoOutcome
    /\ result = NoOutcome
    /\ bg = NoBg

\* new File({attributes: {name: "a", size: 0, mode: m}}, server)
Construct ==
    /\ pc = "idle"
    /\ args.kind = "mode"
    /\ op' = "new File"
    /\ self' = FileCtor([name |-> <<"a">>, mode |-> args.mode, size |-> 0], <<>>)
    /\ pc' = "done"
    /\ UNCHANGED <<verified, contents, args, stage, net, pending, last, api, result, bg>>

ModeNext == Construct
SpecMode == ModeInit /\ [][ModeNext]_vars

\* C22: for every 7-character mode string isDirectory is true exactly when
\* character 0 is "d", owner read/write/execute exactly when characters 1/2/3
\* are "r"/"w"/"x", user read/write/execute exactly when characters 4/5/6 are
\* "r"/"w"/"x"; "drwxr-x" gives owner true/true/true, user true/false/true.
C22_ModeDecoding ==
    (op = "new File") =>
        LET m == args.mode IN
        /\ self.isDirectory <=> (m[1] = "d")
        /\ self.ownerFileAccess.read <=> (m[2] = "r")
        /\ self.ownerFileAccess.write <=> (m[3] = "w")
        /\ self.ownerFileAccess.execute <=> (m[4] = "x")
        /\ self.userFileAccess.read <=> (m[5] = "r")
        /\ self.userFileAccess.write <=> (m[6] = "w")
        /\ self.userFileAccess.execute <=> (m[7] = "x")
        /\ (m = <<"d", "r", "w", "x", "r", "-", "x">>) =>
               /\ self.ownerFileAccess = [read |-> TRUE, write |-> TRUE, execute |-> TRUE]
               /\ self.userFileAccess = [read |-> TRUE, write |-> FALSE, execute |-> TRUE]

C22_Witness ==
    /\ op = "new File"
    /\ args.mode = <<"d", "r", "w", "x", "r", "-", "x">>
    /\ self.isDirectory
    /\ self.ownerFileAccess = [read |-> TRUE, write |-> TRUE, execute |-> TRUE]
    /\ self.userFileAccess = [read |-> TRUE, write |-> FALSE, execute |-> TRUE]

----------------------------------------------------------------------------
(* Properties of write, writeChild and addDirectory *)

\* the position of the last "/" of path, the part before it and the part after
LastSlash(path) ==
    CHOOSE i \in 1..Len(path) :
        /\ path[i] = SLASH
        /\ \A j \in (i + 1)..Len(path) : path[j] # SLASH
BeforeLastSlash(path) == SubSeq(path, 1, LastSlash(path) - 1)
AfterLastSlash(path) == SubSeq(path, LastSlash(path) + 1, Len(path))
\* path without one leading "/"
Stripped(path) == IF StartsWithSlash(path) THEN SubSeq(path, 2, Len(path)) ELSE path

\* C23: write with no path writes to the node's own location; write with a
\* path strips one leading "/" and writes to trim(root) + "/" + path;
\* writeChild strips one leading "/" and writes to trim(location) + "/" + path;
\* the re-listing targets the written path up to its last "/", and a File
\* returned is named by the part after the last "/".
C23_WriteTarget ==
    (op \in {"write", "writeChild"}) =>
        /\ Len(net) >= 1 =>
               /\ net[1].endpoint = "write"
               /\ net[1].query =
                      IF op = "writeChild"
                      THEN Normalize(self.location) \o <<SLASH>> \o Stripped(args.given)
                      ELSE IF args.given = NOSTR THEN self.location
                      ELSE Normalize(self.root) \o <<SLASH>> \o Stripped(args.given)
        /\ Len(net) >= 2 =>
               /\ net[2].endpoint = "list"
               /\ net[2].query = BeforeLastSlash(net[1].query)
        /\ (pc = "done" /\ result.tag = "return" /\ result.value.kind = "File") =>
               result.value.name = AfterLastSlash(net[1].query)

C23_Witness ==
    /\ op = "write"
    /\ self.location = <<SLASH, "d", SLASH, "a">>
    /\ args.given = <<SLASH, "b">>
    /\ Len(net) = 2
    /\ net[1].query = <<SLASH, "d", SLASH, "b">>
    /\ net[2].query = <<SLASH, "d">>
    /\ pc = "done"
    /\ result.tag = "return"
    /\ result.value.kind = "File"
    /\ result.value.name = <<"b">>

\* the parent File.addDirectory resolves from the location it is given
ResolvedParent ==
    (IF self.isDirectory THEN self.location ELSE self.root) \o Normalize(args.given)

\* C24: File.addDirectory(name, location) trims one trailing "/" from
\* location and resolves it against this.location for a directory and
\* against this.root for a file; it creates the folder name under that
\* parent, lists that same parent, and returns a File named name whose root
\* is the resolved parent.
C24_AddDirectoryResolves ==
    (op = "addDirectory") =>
        /\ Len(net) >= 1 =>
               /\ net[1].endpoint = "create-folder"
               /\ net[1].query = ResolvedParent \o <<SLASH>> \o args.name
               /\ net[1].body = [root |-> ResolvedParent, name |-> args.name]
        /\ Len(net) >= 2 =>
               /\ net[2].endpoint = "list"
               /\ net[2].query = ResolvedParent
        /\ (pc = "done" /\ result.tag = "return" /\ result.value.kind = "File") =>
               /\ result.value.name = args.name
               /\ result.value.root = ResolvedParent

C24_Witness ==
    /\ op = "addDirectory"
    /\ self.isDirectory
    /\ self.location = <<SLASH, "a">>
    /\ args.given = <<SLASH, "d", SLASH>>
    /\ Len(net) = 2
    /\ net[2].query = <<SLASH, "a", SLASH, "d">>
    /\ pc = "done"
    /\ result.tag = "return"
    /\ result.value.kind = "File"
    /\ result.value.root = <<SLASH, "a", SLASH, "d">>
    /\ result.value.name = <<"b">>

----------------------------------------------------------------------------
(* Properties of the listings *)

\* C25: every File a directory listing returns is parented at the directory
\* listed: the children getChildren returns have location this.location +
\* "/" + name, and the Files FileManager.getFolderContents(path) returns have
\* location path + "/" + name (path without a trailing "/").
C25_ParentedAtListed ==
    (pc = "done" /\ result.tag = "return" /\ result.value.kind = "list") =>
        \A f \in Returned :
            /\ op = "getChildren" =>
                   f.location = self.location \o <<SLASH>> \o f.name
            /\ op = "FileManager.getFolderContents" =>
                   f.location = Normalize(args.path) \o <<SLASH>> \o f.name

----------------------------------------------------------------------------
(* Properties of the request sequences *)

\* C26: no repair or rollback: an operation that mutates and re-lists sends
\* one mutating request, the first; when the re-listing lacks the expected
\* entry (another actor removed or renamed it in between) the operation ends
\* having sent that request and the listing and nothing else, and sends
\* nothing once it has ended, so what the mutating request applied remotely
\* is never undone by the library.
C26_NoCompensation ==
    /\ []( (op \in RelistOps \cup {"rename"}) =>
               /\ \A i \in 2..Len(net) : net[i].endpoint = "list"
               /\ (pc = "done" /\ stage = 1 /\ Listed /\ Named(ExpectedName) = {}) =>
                      /\ Len(net) = 2
                      /\ net[1].endpoint = MutatingEndpoint
                      /\ pending = {} )
    /\ [][ (op \in RelistOps \cup {"rename"} /\ pc = "done" /\ op' = op) =>
               net' = net ]_vars

C26_Witness ==
    /\ op = "write"
    /\ pc = "done"
    /\ stage = 1
    /\ Listed
    /\ Named(ExpectedName) = {}
    /\ Len(last.data) = 1
    /\ Len(net) = 2
    /\ net[1].endpoint = "write"
    /\ pending = {}
    /\ result = Return(UNDEF)

\* C27: at most one request of a call chain is outstanding at any time, and
\* none of the requests an operation issued is still in flight when the
\* operation returns to its caller; when decompress returns true its delete
\* request has completed.
C27_NothingInFlightAtReturn ==
    /\ Cardinality(pending) <= 1
    /\ pc = "done" => pending = {}

\* C28: a follow-up request is issued only after the preceding request of the
\* same operation succeeded: rename, write, writeChild and addDirectory issue
\* no listing when their mutating request failed, and decompress issues no
\* delete when the decompress request failed.
C28_FollowUpAfterSuccess ==
    [][ ( /\ op \in {"rename", "write", "writeChild", "addDirectory", "decompress"}
          /\ Len(net) >= 1
          /\ Len(net') > Len(net) )
        => ~AnsweredFailure ]_vars

----------------------------------------------------------------------------
(* Frame of the FileManager operations, and Client.verified *)

ManagerOps ==
    { "FileManager.getChild", "FileManager.getFileContents",
      "FileManager.getFolderContents", "FileManager.writeFile",
      "FileManager.addDirectory", "FileManager.sync" }

\* C29: a FileManager.sync that fails leaves contents as it was before the
\* call, and getChild, getFileContents, getFolderContents, writeFile and
\* addDirectory leave contents unchanged whether they succeed or fail.
C29_ContentsFrame ==
    [][ (op \in ManagerOps /\ op' = op) =>
            \/ contents' = contents
            \/ op = "FileManager.sync" /\ result'.tag = "return" ]_vars

\* C30: Client.verified starts false, becomes true only when a login request
\* has returned status 200, and is never set back to false; once it is true
\* login returns true without issuing a request; and no request other than
\* login's is ever issued while the client is unverified.
C30_VerifiedByLogin ==
    /\ ~verified
    /\ []( \A i \in 1..Len(net) : net[i].op # "login" => verified )
    /\ [][ /\ verified => verified'
           /\ (~verified /\ verified') =>
                  /\ op = "login"
                  /\ Listed
                  /\ last.status = 200
           /\ (verified /\ op = "idle" /\ op' = "login") =>
                  /\ net' = <<>>
                  /\ pc' = "done"
                  /\ result' = Return(True) ]_vars

C30_Witness ==
    /\ op = "login"
    /\ verified
    /\ pc = "done"
    /\ net = <<>>
    /\ result = Return(True)

====
